---- MODULE Spec2Model ----
(***************************************************************************)
(* CloudflareImageUploader.upload_images (src/cloudflare_uploader.py):     *)
(* one invocation of the node on a batch of images.  The remote endpoint   *)
(* is the environment: for every request it picks one response.            *)
(*                                                                         *)
(* Text that the code only passes on (credentials, prefix, url, filename)  *)
(* is a TLA+ string.  Text whose characters matter (the ids the endpoint   *)
(* returns and the identifier value built from them) is a sequence of      *)
(* Unicode code points, so that json.dumps is computed character by        *)
(* character.  A value parsed from JSON is a record [tag, s, n].  An image *)
(* is one pixel: the sequence of its channel values, in tenths; the images *)
(* argument is one tensor, so all its images have the same channel count.  *)
(* The encoding of sys.stdout is part of the environment: print raises     *)
(* UnicodeEncodeError on a character the encoding does not have.           *)
(*                                                                         *)
(* Spec calls the routine on an image batch (three channels per image).    *)
(* SpecAnyTensor calls it on any tensor: the code does not check the shape *)
(* of its argument, and a tensor that is not an image batch reaches the    *)
(* conversion of line 59, which raises inside the try statement.           *)
(***************************************************************************)
EXTENDS Integers, Sequences, FiniteSets, TLC

VARIABLES
    pc,               \* position in upload_images
    images,           \* argument: the tensor, one sequence of channel values per image
    account_id,       \* argument
    api_token,        \* argument
    filename_prefix,  \* argument
    stdout_encoding,  \* the encoding of sys.stdout, which print writes to
    i,                \* loop index of `for i in range(images.shape[0])`
    processed,        \* the indices the loop body has been entered with, in order
    cloudflare_ids,   \* the list the loop appends to
    img_bytes,        \* the PNG buffer of the current image
    filename,         \* the display filename of the current image
    requests,         \* every requests.post call made so far, in order
    responses,        \* the outcome of every completed requests.post call, in order
    log,              \* the kind of every line printed so far
    ret               \* the value returned to the caller

vars == << pc, images, account_id, api_token, filename_prefix, stdout_encoding, i,
           processed, cloudflare_ids, img_bytes, filename, requests, responses, log, ret >>

\* ------------------------------------------------------------------ bounds

MaxBatch == 3

\* ------------------------------------------------------------ JSON values

JStr(s) == [tag |-> "str", s |-> s, n |-> 0]
JInt(n) == [tag |-> "int", s |-> << >>, n |-> n]
JNull == [tag |-> "null", s |-> << >>, n |-> 0]

EmptyStr == JStr(<< >>)

\* the code point of the decimal digit d
DigitChar(d) == 48 + d

\* str(n) of an int, as json.dumps prints it
RECURSIVE IntChars(_)
IntChars(n) ==
    IF n < 0 THEN << 45 >> \o IntChars(-n)
    ELSE IF n < 10 THEN << DigitChar(n) >>
    ELSE IntChars(n \div 10) \o << DigitChar(n % 10) >>

\* the code point of the lower-case hexadecimal digit d
HexChar(d) == IF d < 10 THEN 48 + d ELSE 87 + d

\* '\\u{0:04x}'.format(n)
UnicodeEscape(n) ==
    << 92, 117, HexChar((n \div 4096) % 16), HexChar((n \div 256) % 16),
       HexChar((n \div 16) % 16), HexChar(n % 16) >>

\* json.dumps of one character of a str (ensure_ascii is on): the double
\* quote, the backslash and \b \t \n \f \r get their two-character escape;
\* a printable ASCII character (space to ~) stands for itself; every other
\* character becomes \uXXXX, a UTF-16 surrogate pair above U+FFFF.
EscapeChar(c) ==
    CASE c = 34 -> << 92, 34 >>
      [] c = 92 -> << 92, 92 >>
      [] c = 8 -> << 92, 98 >>
      [] c = 9 -> << 92, 116 >>
      [] c = 10 -> << 92, 110 >>
      [] c = 12 -> << 92, 102 >>
      [] c = 13 -> << 92, 114 >>
      [] c \in 32..126 /\ c # 34 /\ c # 92 -> << c >>
      [] c >= 65536 ->
            UnicodeEscape(55296 + (((c - 65536) \div 1024) % 1024))
            \o UnicodeEscape(56320 + ((c - 65536) % 1024))
      [] OTHER -> UnicodeEscape(c)

RECURSIVE EscapeChars(_)
EscapeChars(s) ==
    IF s = << >> THEN << >> ELSE EscapeChar(Head(s)) \o EscapeChars(Tail(s))

\* json.dumps of one element: a str between double quotes, an int, or null
DumpsValue(v) ==
    IF v.tag = "str" THEN << 34 >> \o EscapeChars(v.s) \o << 34 >>
    ELSE IF v.tag = "int" THEN IntChars(v.n)
    ELSE << 110, 117, 108, 108 >>

\* ", ".join(parts)
RECURSIVE JoinCommaSpace(_)
JoinCommaSpace(vs) ==
    IF vs = << >> THEN << >>
    ELSE IF Len(vs) = 1 THEN DumpsValue(vs[1])
    ELSE DumpsValue(vs[1]) \o << 44, 32 >> \o JoinCommaSpace(Tail(vs))

\* json.dumps(list) with the default separators (", ").
json_dumps(vs) == << 91 >> \o JoinCommaSpace(vs) \o << 93 >>

\* --------------------------------------------------------- the environment

\* a
IdA == << 97 >>
\* b
IdB == << 98 >>
\* the ten characters ["a", "b"]
IdArr == << 91, 34, 97, 34, 44, 32, 34, 98, 34, 93 >>
\* a newline, e-acute (U+00E9) and an emoji (U+1F600)
IdWide == << 10, 233, 128512 >>

NoId == JStr(<< >>)

\* text: str(e) of the exception requests.post or response.json raises, the
\* joined messages of "errors", or response.text, whichever the code prints.
Resp(kind, status, json, success, result, id, errors, text) ==
    [kind |-> kind, status_code |-> status, json |-> json, success |-> success,
     result |-> result, id |-> id, errors |-> errors, text |-> text]

\* HTTP 200, {"success": true, "result": {"id": id}}
Success(id) == Resp("http", 200, "object", TRUE, "id", id, "absent", << >>)

SuccessResponses ==
    { Success(JStr(IdA)), Success(JStr(IdB)), Success(JStr(<< >>)),
      Success(JStr(IdArr)), Success(JStr(IdWide)), Success(JInt(7)), Success(JNull) }

\* requests.post raises (connection error, timeout) with the message "x"
TransportError == Resp("raise", 0, "none", FALSE, "absent", NoId, "absent", << 120 >>)
\* requests.post raises with a message that has an e-acute in it
TransportErrorWide == Resp("raise", 0, "none", FALSE, "absent", NoId, "absent", << 233 >>)
\* a status other than 200, with the body "x"
Http500 == Resp("http", 500, "invalid", FALSE, "absent", NoId, "absent", << 120 >>)
\* HTTP 200 whose body is not JSON: response.json raises, its message is ASCII
NotJson == Resp("http", 200, "invalid", FALSE, "absent", NoId, "absent", << 120 >>)
\* HTTP 200, {"success": true, "result": {}}: KeyError('id')
NoResultId == Resp("http", 200, "object", TRUE, "noid", NoId, "absent", << 39, 105, 100, 39 >>)
\* HTTP 200, {"success": false, "errors": [{"message": "x"}]}
Rejected == Resp("http", 200, "object", FALSE, "absent", NoId, "list", << 120 >>)
\* HTTP 200, {"success": false, "errors": null}: TypeError, its message is ASCII
RejectedNullErrors == Resp("http", 200, "object", FALSE, "absent", NoId, "null", << 120 >>)

FailureResponses ==
    { TransportError, TransportErrorWide, Http500, NotJson, NoResultId, Rejected,
      RejectedNullErrors }

Responses == SuccessResponses \cup FailureResponses

\* an image of three channels
ValidImages == { << 5, 12, -2 >> }
Prefixes == { "ComfyUI", "x" }
Credentials == { "", "k" }
StdoutEncodings == { "utf-8", "ascii" }

RECURSIVE SeqsUpTo(_, _)
SeqsUpTo(S, n) ==
    IF n = 0 THEN { << >> }
    ELSE LET shorter == SeqsUpTo(S, n - 1)
         IN  shorter \cup { Append(s, x) : s \in { t \in shorter : Len(t) = n - 1 }, x \in S }

\* the image batches of up to MaxBatch images: every image has three channels
ImageBatches == SeqsUpTo(ValidImages, MaxBatch)

\* A tensor of n images whose last axis has five channels: not an image batch,
\* but the code takes it, and Image.fromarray refuses each of its images.
FiveChannelTensor(n) == [k \in 1..n |-> << 5, 5, 5, 5, 5 >>]

\* the tensors the code can be called with: the image batches, and tensors of
\* five channels
Tensors == ImageBatches \cup { FiveChannelTensor(n) : n \in 1..MaxBatch }

\* ----------------------------------------------------- pure parts of the code

\* 255. * value, np.clip(..., 0, 255), astype(np.uint8) of one channel value
\* given in tenths
ToUint8(value) ==
    LET scaled == 255 * value
        clipped == IF scaled < 0 THEN 0 ELSE IF scaled > 2550 THEN 2550 ELSE scaled
    IN  clipped \div 10

\* Image.fromarray accepts a last axis of 2, 3 or 4 channels and raises
\* TypeError for any other channel count.
Convertible(image) == Len(image) \in 2..4

\* tensor2pil of an image it does not raise on
tensor2pil(image) == [c \in 1..Len(image) |-> ToUint8(image[c])]

\* img.save(img_bytes, format='PNG'); img_bytes.seek(0)
PngBytes(image) == [format |-> "PNG", pixels |-> tensor2pil(image)]

NoBytes == [format |-> "none", pixels |-> << >>]

\* f"{filename_prefix}_{i}.png"
Filename(prefix, index) == prefix \o "_" \o ToString(index) \o ".png"

\* the url, headers and files of the requests.post call
Request(account, token, name, bytes, index) ==
    [url |-> "https://api.cloudflare.com/client/v4/accounts/" \o account \o "/images/v1",
     authorization |-> "Bearer " \o token,
     field |-> "file", filename |-> name, content_type |-> "image/png",
     body |-> bytes, image |-> index]

\* Variant: `and` in place of `or`.
MissingCredentialsBoth(account, token) == account = "" /\ token = ""

\* `not account_id or not api_token`
MissingCredentials(account, token) == account = "" \/ token = ""

\* What the body of the try statement does with the outcome of requests.post:
\* "append" (the id is appended), "rejected" (success false), "status"
\* (status other than 200) or "except" (an exception reaches the handler).
Outcome(r) ==
    IF r.kind = "raise" THEN "except"
    ELSE IF r.status_code = 200
    THEN IF r.json # "object" THEN "except"
         ELSE IF r.success
              THEN IF r.result = "id" THEN "append" ELSE "except"
              ELSE IF r.errors = "null" THEN "except" ELSE "rejected"
    ELSE "status"

\* Variant: the new id is put in front of the list.
IdsAfterPrepend(ids, r) == IF Outcome(r) = "append" THEN << r.id >> \o ids ELSE ids

\* Variant: an id already in the list is not appended again.
IdsAfterDedupe(ids, r) ==
    IF Outcome(r) = "append" /\ (\A k \in 1..Len(ids) : ids[k] # r.id)
    THEN Append(ids, r.id) ELSE ids

\* cloudflare_ids after the response has been handled
IdsAfter(ids, r) == IF Outcome(r) = "append" THEN Append(ids, r.id) ELSE ids

\* str(v) of a value parsed from JSON, as an f-string formats it
StrOf(v) ==
    IF v.tag = "str" THEN v.s
    ELSE IF v.tag = "int" THEN IntChars(v.n)
    ELSE << 78, 111, 110, 101 >>

\* whether sys.stdout can encode the character: ascii has the code points
\* below 128, utf-8 every code point but the surrogates
CanEncode(c, encoding) ==
    IF encoding = "ascii" THEN c < 128 ELSE c \notin 55296..57343

\* whether print(text) returns; it raises UnicodeEncodeError otherwise.  The
\* fixed parts of the lines the code prints are ASCII.
Printable(text, encoding) == \A k \in 1..Len(text) : CanEncode(text[k], encoding)

\* the text the line printed for the response carries: the id (line 85), the
\* error messages (line 89), response.text (line 91) or str(e) (line 94)
PrintedText(r) == IF Outcome(r) = "append" THEN StrOf(r.id) ELSE r.text

\* The print of line 85, 89 or 91 raises: the handler of line 93 is entered
\* after the try body has done its work.  The message of the
\* UnicodeEncodeError names the character by its escape and is ASCII.
TryPrintRaises(r, encoding) ==
    Outcome(r) # "except" /\ ~Printable(PrintedText(r), encoding)

\* The print of line 94 raises inside the handler: nothing catches it.
HandlerPrintRaises(r, encoding) ==
    Outcome(r) = "except" /\ ~Printable(PrintedText(r), encoding)

\* what the iteration ends as: the outcome of the try body, or "except" when
\* one of its prints raised
IterationOutcome(r, encoding) ==
    IF TryPrintRaises(r, encoding) THEN "except" ELSE Outcome(r)

\* the line printed for the response
LogLine(r, encoding) ==
    CASE IterationOutcome(r, encoding) = "append" -> "uploaded"
      [] IterationOutcome(r, encoding) = "rejected" -> "error_api"
      [] IterationOutcome(r, encoding) = "status" -> "status_failed"
      [] OTHER -> "exception"

\* Variant: an image whose upload raised is tried again.
NextIndexRetry(k, n, outcome) == IF outcome = "except" THEN k ELSE k + 1

\* The index the for loop continues with after the iteration for index k of a
\* batch of n, whatever the outcome of that iteration: the try statement is
\* inside the loop body.
NextIndex(k, n, outcome) == k + 1

\* Variant: every non-empty list is JSON-encoded.
IdentifierValueAlwaysJson(ids) ==
    IF Len(ids) >= 1 THEN JStr(json_dumps(ids)) ELSE EmptyStr

\* Variant: only the first id is returned.
IdentifierValueFirstOnly(ids) == IF Len(ids) >= 1 THEN ids[1] ELSE EmptyStr

\* the second component of the result (line 101)
IdentifierValue(ids) ==
    IF Len(ids) > 1 THEN JStr(json_dumps(ids))
    ELSE IF Len(ids) >= 1 THEN ids[1]
    ELSE EmptyStr

NoReturn == [kind |-> "none", ui |-> << >>, result |-> << >>]

\* `return (images, "")` of line 48
NoCredentialsReturn(batch) ==
    [kind |-> "tuple", ui |-> << >>, result |-> << batch, EmptyStr >>]

\* Variant: the empty list is JSON-encoded.
EmptyBatchReturnJson(batch) ==
    [kind |-> "tuple", ui |-> << >>, result |-> << batch, JStr(json_dumps(<< >>)) >>]

\* `return (images, "")` of line 52
EmptyBatchReturn(batch) ==
    [kind |-> "tuple", ui |-> << >>, result |-> << batch, EmptyStr >>]

\* `images.shape[0] == 0`
IsEmptyBatch(batch) == Len(batch) = 0

\* `return {"ui": {...}, "result": (images, ...)}`
FinalReturn(batch, ids) ==
    [kind |-> "dict", ui |-> ids, result |-> << batch, IdentifierValue(ids) >>]

\* ------------------------------------------------------------------ actions

\* the state at the call, with the images argument drawn from T
InitWith(T) ==
    /\ pc = "start"
    /\ images \in T
    /\ account_id \in Credentials
    /\ api_token \in Credentials
    /\ filename_prefix \in Prefixes
    /\ stdout_encoding \in StdoutEncodings
    /\ i = 0
    /\ processed = << >>
    /\ cloudflare_ids = << >>
    /\ img_bytes = NoBytes
    /\ filename = ""
    /\ requests = << >>
    /\ responses = << >>
    /\ log = << >>
    /\ ret = NoReturn

\* the call on an image batch
Init == InitWith(ImageBatches)

\* lines 46-48
ReturnNoCredentials ==
    /\ pc = "start"
    /\ MissingCredentials(account_id, api_token)
    /\ log' = Append(log, "warning_credentials")
    /\ ret' = NoCredentialsReturn(images)
    /\ pc' = "done"
    /\ UNCHANGED << images, account_id, api_token, filename_prefix, stdout_encoding, i, processed,
                    cloudflare_ids, img_bytes, filename, requests, responses >>

\* lines 50-52
ReturnEmptyBatch ==
    /\ pc = "start"
    /\ ~MissingCredentials(account_id, api_token)
    /\ IsEmptyBatch(images)
    /\ log' = Append(log, "warning_no_images")
    /\ ret' = EmptyBatchReturn(images)
    /\ pc' = "done"
    /\ UNCHANGED << images, account_id, api_token, filename_prefix, stdout_encoding, i, processed,
                    cloudflare_ids, img_bytes, filename, requests, responses >>

\* lines 54-56: the list is created and the loop entered
BeginLoop ==
    /\ pc = "start"
    /\ ~MissingCredentials(account_id, api_token)
    /\ ~IsEmptyBatch(images)
    /\ cloudflare_ids' = << >>
    /\ i' = 0
    /\ pc' = "convert"
    /\ UNCHANGED << images, account_id, api_token, filename_prefix, stdout_encoding, processed,
                    img_bytes,
                    filename, requests, responses, log, ret >>

\* Variant: the filename counts the uploads that succeeded so far.
FilenameIndexBySuccesses == Len(cloudflare_ids)

\* the index that line 67 puts into the filename
FilenameIndex == i

\* lines 56-67: the loop body is entered with index i; the image becomes a
\* PNG buffer and gets its filename
Convert ==
    /\ pc = "convert"
    /\ i < Len(images)
    /\ Convertible(images[i + 1])
    /\ processed' = Append(processed, i)
    /\ img_bytes' = PngBytes(images[i + 1])
    /\ filename' = Filename(filename_prefix, FilenameIndex)
    /\ pc' = "post"
    /\ UNCHANGED << images, account_id, api_token, filename_prefix, stdout_encoding, i,
                    cloudflare_ids,
                    requests, responses, log, ret >>

\* lines 56-59, 93-94: the loop body is entered with index i and tensor2pil
\* raises; the handler prints a line and the loop moves on without a request
ConvertRaises ==
    /\ pc = "convert"
    /\ i < Len(images)
    /\ ~Convertible(images[i + 1])
    /\ processed' = Append(processed, i)
    /\ log' = Append(log, "exception")
    /\ i' = NextIndex(i, Len(images), "except")
    /\ pc' = "convert"
    /\ UNCHANGED << images, account_id, api_token, filename_prefix, stdout_encoding, cloudflare_ids,
                    img_bytes, filename, requests, responses, ret >>

\* lines 70-78: requests.post is called
Post ==
    /\ pc = "post"
    /\ requests' = Append(requests, Request(account_id, api_token, filename, img_bytes, i))
    /\ pc' = "await"
    /\ UNCHANGED << images, account_id, api_token, filename_prefix, stdout_encoding, i, processed,
                    cloudflare_ids, img_bytes, filename, responses, log, ret >>

\* lines 78-94: requests.post returns or raises; the outcome is handled, a
\* line is printed and the loop moves on
Respond(R) ==
    /\ pc = "await"
    /\ \E r \in R :
        /\ ~HandlerPrintRaises(r, stdout_encoding)
        /\ responses' = Append(responses, r)
        /\ cloudflare_ids' = IdsAfter(cloudflare_ids, r)
        /\ log' = Append(log, LogLine(r, stdout_encoding))
        /\ i' = NextIndex(i, Len(images), IterationOutcome(r, stdout_encoding))
    /\ pc' = "convert"
    /\ UNCHANGED << images, account_id, api_token, filename_prefix, stdout_encoding,
                    processed, img_bytes, filename, requests, ret >>

\* lines 78-94: an exception reaches the handler and the print of line 94
\* raises UnicodeEncodeError: nothing is printed and the call ends with that
\* exception, returning nothing
RespondRaises(R) ==
    /\ pc = "await"
    /\ \E r \in R :
        /\ HandlerPrintRaises(r, stdout_encoding)
        /\ responses' = Append(responses, r)
    /\ pc' = "raised"
    /\ UNCHANGED << images, account_id, api_token, filename_prefix, stdout_encoding, i,
                    processed, cloudflare_ids, img_bytes, filename, requests, log, ret >>

\* lines 97-102
Return ==
    /\ pc = "convert"
    /\ i >= Len(images)
    /\ ret' = FinalReturn(images, cloudflare_ids)
    /\ pc' = "done"
    /\ UNCHANGED << images, account_id, api_token, filename_prefix, stdout_encoding, i, processed,
                    cloudflare_ids, img_bytes, filename, requests, responses, log >>

\* The steps of a call on an image batch.  ConvertRaises is not among them:
\* every image of an image batch is Convertible, so it is never enabled.
Next ==
    \/ ReturnNoCredentials
    \/ ReturnEmptyBatch
    \/ BeginLoop
    \/ Convert
    \/ Post
    \/ Respond(Responses)
    \/ RespondRaises(Responses)
    \/ Return

Spec == Init /\ [][Next]_vars

\* The same routine called on any tensor: an image batch, or a tensor whose
\* images the conversion raises on.
InitAnyTensor == InitWith(Tensors)

NextAnyTensor ==
    \/ ReturnNoCredentials
    \/ ReturnEmptyBatch
    \/ BeginLoop
    \/ Convert
    \/ ConvertRaises
    \/ Post
    \/ Respond(Responses)
    \/ RespondRaises(Responses)
    \/ Return

SpecAnyTensor == InitAnyTensor /\ [][NextAnyTensor]_vars

\* The same routine called on an image batch with credentials, one prefix
\* and a UTF-8 stdout, against an endpoint that answers every request with
\* one of five ids or with HTTP 500: every sequence of these ids of length up
\* to MaxBatch is collected by some call.
IdResponses ==
    { Success(JStr(IdA)), Success(JStr(IdB)), Success(JStr(<< >>)),
      Success(JStr(IdArr)), Success(JInt(7)), Http500 }

InitIds ==
    /\ Init
    /\ account_id = "k"
    /\ api_token = "k"
    /\ filename_prefix = "ComfyUI"
    /\ stdout_encoding = "utf-8"

NextIds ==
    \/ ReturnEmptyBatch
    \/ BeginLoop
    \/ Convert
    \/ Post
    \/ Respond(IdResponses)
    \/ Return

SpecIds == InitIds /\ [][NextIds]_vars

\* ------------------------------------------------------------------- claims

HasCredentials == account_id # "" /\ api_token # ""

\* HTTP 200 whose JSON body has success true and carries result.id
AnswersWithId(r) ==
    /\ r.kind = "http"
    /\ r.status_code = 200
    /\ r.json = "object"
    /\ r.success
    /\ r.result = "id"

\* the ids of the responses that answer with an id, in the order of the responses
RECURSIVE ReturnedIds(_)
ReturnedIds(rs) ==
    IF rs = << >> THEN << >>
    ELSE (IF AnswersWithId(Head(rs)) THEN << Head(rs).id >> ELSE << >>)
         \o ReturnedIds(Tail(rs))

\* the batch positions of the requests made so far, in the order they were made
RequestPositions == [k \in 1..Len(requests) |-> requests[k].image]

\* C1: with account_id empty or api_token empty, no HTTP call is ever made, and
\* the call returns the input batch together with the empty string, whatever
\* the batch and the prefix (and whatever tensor stands for the batch: the
\* guard of line 46 comes before anything reads it).
C1_NoCredentialsNoUpload ==
    (account_id = "" \/ api_token = "") =>
        /\ requests = << >>
        /\ pc = "done" => ret.result = << images, EmptyStr >>

C1_Witness ==
    /\ pc = "done"
    /\ account_id = "k"
    /\ api_token = ""
    /\ Len(images) = 2
    /\ ret.result = << images, EmptyStr >>

\* C2: with credentials and a batch of zero images, no HTTP call is ever made,
\* and the call returns the input batch together with the empty string.
C2_EmptyBatchNoUpload ==
    (HasCredentials /\ Len(images) = 0) =>
        /\ requests = << >>
        /\ pc = "done" => ret.result = << images, EmptyStr >>

C2_Witness ==
    /\ pc = "done"
    /\ HasCredentials
    /\ images = << >>
    /\ ret.result = << images, EmptyStr >>
    /\ log = << "warning_no_images" >>

\* C3: a failed upload never aborts the batch.  The loop body is entered
\* with the indices 0, 1, 2, ... in that order, once each, and the requests
\* made are for increasing positions; when a call with credentials on a
\* non-empty batch has ended, every index of the batch has been processed,
\* whatever the outcomes were; and in a batch of two, a transport error on
\* position 0 followed by an id for position 1 yields exactly that id.
C3_FailureNeverAborts ==
    /\ \A k \in 1..Len(processed) : processed[k] = k - 1
    /\ \A j, k \in 1..Len(requests) : j < k => requests[j].image < requests[k].image
    /\ Len(responses) <= Len(requests)
    /\ (pc \in { "done", "raised" } /\ HasCredentials /\ Len(images) > 0) =>
        /\ Len(processed) = Len(images)
        /\ Len(responses) = Len(requests)
        /\ \A k \in 1..Len(images) :
                Convertible(images[k]) <=> (\E q \in 1..Len(requests) : requests[q].image = k - 1)
        /\ (/\ RequestPositions = << 0, 1 >>
            /\ Outcome(responses[1]) = "except"
            /\ responses[1].kind = "raise"
            /\ AnswersWithId(responses[2])) =>
                (pc = "done" /\ ret.ui = << responses[2].id >>)

\* the 29 characters ["\n\u00e9\ud83d\ude00", "a"]
WideThenA ==
    << 91, 34, 92, 110, 92, 117, 48, 48, 101, 57, 92, 117, 100, 56, 51, 100,
       92, 117, 100, 101, 48, 48, 34, 44, 32, 34, 97, 34, 93 >>

\* C4: the returned identifier value depends on the collected ids only: more
\* than one id gives the JSON array text of the ids in upload order (the ids
\* a then b give the ten characters ["a", "b"], and characters outside
\* printable ASCII are escaped); exactly one id gives that id
\* itself, not JSON-encoded, also when other images failed; no id gives the
\* empty string.
C4_ResultEncoding ==
    pc = "done" =>
        LET ids == cloudflare_ids
            v == ret.result[2]
        IN  /\ Len(ids) > 1 => v = JStr(json_dumps(ids))
            /\ ids = << JStr(IdA), JStr(IdB) >> => v = JStr(IdArr)
            /\ ids = << JStr(IdWide), JStr(IdA) >> => v = JStr(WideThenA)
            /\ Len(ids) = 1 => (v = ids[1] /\ v # JStr(json_dumps(ids)))
            /\ Len(ids) = 0 => v = EmptyStr

C4_Witness ==
    /\ pc = "done"
    /\ Len(images) = 3
    /\ responses = << Success(JStr(IdA)), Http500, Success(JStr(IdB)) >>
    /\ cloudflare_ids = << JStr(IdA), JStr(IdB) >>
    /\ ret.result[2] = JStr(IdArr)

\* C5: at every point of the loop the collected list is exactly the ids of the
\* responses received so far that were HTTP 200 with success true and an id,
\* in the order of the responses; every other outcome appends nothing, so the
\* list is never longer than the number of images processed or than the batch.
C5_IdsAreSuccessesInOrder ==
    /\ cloudflare_ids = ReturnedIds(responses)
    /\ Len(cloudflare_ids) <= Len(responses)
    /\ Len(cloudflare_ids) <= Len(images)

C5_Witness ==
    /\ pc = "convert"
    /\ i = 3
    /\ responses = << Success(JStr(IdB)), Rejected, Success(JStr(IdA)) >>
    /\ cloudflare_ids = << JStr(IdB), JStr(IdA) >>

\* C6: when a call with credentials on a non-empty batch returns and every
\* request was answered with HTTP 200, success true and an id, the call
\* returns as many identifiers as the batch has images; the batch returned is
\* the input batch, and no step of the call modifies it.
C6_AllSucceed ==
    /\ [](  (/\ pc = "done"
             /\ HasCredentials
             /\ Len(images) > 0
             /\ \A k \in 1..Len(responses) : AnswersWithId(responses[k]))
            => (/\ Len(ret.ui) = Len(images)
                /\ Len(requests) = Len(images)
                /\ ret.result[1] = images))
    /\ [](pc = "done" => ret.result[1] = images)
    /\ [][images' = images]_vars

C6_Witness ==
    /\ pc = "done"
    /\ Len(images) = 3
    /\ HasCredentials
    /\ responses = << Success(JStr(IdA)), Success(JStr(IdA)), Success(JStr(IdB)) >>
    /\ Len(ret.ui) = 3
    /\ ret.result[1] = images

\* C7: every request carries the filename "{filename_prefix}_{p}.png" and the
\* PNG bytes of the image at p, where p is the zero-based batch position of
\* the image the loop is at, whichever earlier images succeeded or failed.
C7_FilenameIsBatchPosition ==
    /\ \A k \in 1..Len(requests) :
        LET p == requests[k].image
        IN  /\ p \in 0..(Len(images) - 1)
            /\ requests[k].filename = filename_prefix \o "_" \o ToString(p) \o ".png"
            /\ requests[k].body = PngBytes(images[p + 1])
    /\ pc = "await" => requests[Len(requests)].image = i

C7_Witness ==
    /\ filename_prefix = "ComfyUI"
    /\ Len(images) = 3
    /\ Len(requests) = 3
    /\ responses = << TransportError, Rejected >>
    /\ requests[3].filename = "ComfyUI_2.png"
    /\ requests[3].image = 2
    /\ cloudflare_ids = << >>

\* C8: the call never ends with an exception, and it always returns a
\* well-formed result: the pair of the input batch and an identifier value
\* that is a string, on every return path and for every combination of
\* outcomes.
C8_AlwaysWellFormedResult ==
    /\ pc # "raised"
    /\ pc = "done" =>
        /\ Len(ret.result) = 2
        /\ ret.result[1] = images
        /\ ret.result[2].tag = "str"

\* C9: processing is sequential.  At most one request is in flight; no image
\* is requested twice; and whenever the conversion of an image is about to
\* begin or has just been done, every request made so far has been answered
\* and was for an earlier position, and the images before it have all been
\* processed.
C9_Sequential ==
    /\ Len(requests) - Len(responses) \in { 0, 1 }
    /\ \A j, k \in 1..Len(requests) : requests[j].image = requests[k].image => j = k
    /\ pc = "await" <=> Len(requests) = Len(responses) + 1
    /\ pc \in { "convert", "post" } =>
        /\ Len(responses) = Len(requests)
        /\ Len(requests) <= i
        /\ \A k \in 1..Len(requests) : requests[k].image < i
        /\ \A p \in 0..(i - 1) : \E k \in 1..Len(processed) : processed[k] = p

C9_Witness ==
    /\ pc = "await"
    /\ i = 1
    /\ Len(requests) = 2
    /\ Len(responses) = 1
    /\ responses[1] = TransportError

\* The ids the endpoint of SpecIds hands out, the lists of them a call can
\* collect, and the identifier value returned for each list.
IdValues == { r.id : r \in { q \in IdResponses : AnswersWithId(q) } }
IdSeqs == SeqsUpTo(IdValues, MaxBatch)
ValueOf == [ids \in IdSeqs |-> IdentifierValue(ids)]

\* The single id of `one` reads like the whole list `many`: it is the empty
\* string and `many` is empty, or it is the JSON array text of `many`.
ReadsLike(one, many) ==
    /\ Len(one) = 1
    /\ \/ many = << >> /\ one[1] = EmptyStr
       \/ Len(many) > 1 /\ one[1] = JStr(json_dumps(many))

\* C10 as stated: the returned identifier value determines the collected list
\* (a call that collects another list returns another value), and it is the
\* empty string exactly when no upload succeeded.
C10_ValueDeterminesIds ==
    pc = "done" =>
        LET v == ret.result[2]
        IN  /\ \A other \in IdSeqs : other # cloudflare_ids => ValueOf[other] # v
            /\ v = EmptyStr <=> cloudflare_ids = << >>

\* C10 amended: two calls that collect different lists return different
\* values unless one of them collected a single id that is the empty string
\* (the other collected none) or that is the JSON array text of the two or
\* more ids of the other; the value is the empty string exactly when no upload
\* succeeded or the only id collected is the empty string.
C10_ValueDeterminesIdsUpToBareId ==
    pc = "done" =>
        LET v == ret.result[2]
        IN  /\ \A other \in IdSeqs :
                (other # cloudflare_ids /\ ValueOf[other] = v) =>
                    \/ ReadsLike(cloudflare_ids, other)
                    \/ ReadsLike(other, cloudflare_ids)
            /\ v = EmptyStr <=>
                (cloudflare_ids = << >> \/ cloudflare_ids = << EmptyStr >>)

C10_Witness ==
    /\ pc = "done"
    /\ cloudflare_ids = << JStr(IdArr) >>
    /\ ret.result[2] = ValueOf[<< JStr(IdA), JStr(IdB) >>]

====
